---- MODULE Spec2Model ----
(***************************************************************************)
(* A state-machine model of src/parser.rs: the recursive-descent JSON      *)
(* parser `parse` with its cursor (index/length over the source bytes),    *)
(* its scanners (numbers, strings, literals), the array/object builder,    *)
(* the diagnostics (unexpected_character, source_position_from_index) and  *)
(* the top-level driver (value, then ensure_end).                          *)
(*                                                                         *)
(* Every action is one program point of the parser: one next_byte! and the *)
(* dispatch on the byte read.  The recursion of read_array/read_object is  *)
(* an explicit stack of frames.  f64 arithmetic is kept symbolic (the      *)
(* digits that enter it); the u64 and i32 accumulators keep their width.   *)
(***************************************************************************)
EXTENDS Integers, Sequences, FiniteSets, TLC

\* ------------------------------------------------------------------ bytes

\* The ASCII bytes the parser matches on, by the character of the source.
Ascii ==
    ("\t" :> 9) @@ ("\n" :> 10) @@ ("\r" :> 13) @@ (" " :> 32) @@
    ("\"" :> 34) @@ ("+" :> 43) @@ ("," :> 44) @@ ("-" :> 45) @@
    ("." :> 46) @@ ("/" :> 47) @@ ("0" :> 48) @@ ("1" :> 49) @@
    ("2" :> 50) @@ ("3" :> 51) @@ ("4" :> 52) @@ ("5" :> 53) @@
    ("6" :> 54) @@ ("7" :> 55) @@
    ("8" :> 56) @@ ("9" :> 57) @@ (":" :> 58) @@
    ("A" :> 65) @@ ("B" :> 66) @@ ("C" :> 67) @@ ("D" :> 68) @@
    ("E" :> 69) @@ ("F" :> 70) @@
    ("[" :> 91) @@ ("\\" :> 92) @@ ("]" :> 93) @@
    ("a" :> 97) @@ ("b" :> 98) @@ ("c" :> 99) @@ ("d" :> 100) @@
    ("e" :> 101) @@ ("f" :> 102) @@ ("l" :> 108) @@ ("n" :> 110) @@
    ("q" :> 113) @@ ("r" :> 114) @@ ("s" :> 115) @@ ("t" :> 116) @@
    ("u" :> 117) @@ ("x" :> 120) @@ ("{" :> 123) @@ ("}" :> 125)

\* b'c'
B(c) == Ascii[c]

\* The bytes of a text given character by character.
T(cs) == [i \in DOMAIN cs |-> Ascii[cs[i]]]

\* 9 ... 13 | 32
IsWhitespace(b) == b \in (9..13) \cup {32}

\* b'0' ... b'9'
IsDigit(b) == b \in 48..57

RECURSIVE BitAnd(_, _)
\* a & b on unsigned integers.
BitAnd(a, b) ==
    IF a = 0 \/ b = 0 THEN 0
    ELSE (a % 2) * (b % 2) + 2 * BitAnd(a \div 2, b \div 2)

RECURSIVE Rep(_, _)
\* n copies of the byte sequence s.
Rep(s, n) == IF n = 0 THEN <<>> ELSE s \o Rep(s, n - 1)

\* ------------------------------------------- fixed-width integer arithmetic

\* An integer of width 16*n bits is a little-endian sequence of n 16-bit
\* limbs (u64: 4 limbs, i32: 2 limbs, two's complement).
Limbs(v, n) ==
    [i \in 1..n |-> IF i = 1 THEN v % 65536 ELSE IF i = 2 THEN v \div 65536 ELSE 0]

RECURSIVE ShlFrom(_, _, _, _)
ShlFrom(x, k, i, carry) ==
    IF i > Len(x) THEN <<carry>>
    ELSE LET t == (x[i] * (2 ^ k)) + carry
         IN  <<t % 65536>> \o ShlFrom(x, k, i + 1, t \div 65536)

RECURSIVE AddFrom(_, _, _, _)
AddFrom(x, y, i, carry) ==
    IF i > Len(x) THEN <<carry>>
    ELSE LET t == x[i] + y[i] + carry
         IN  <<t % 65536>> \o AddFrom(x, y, i + 1, t \div 65536)

\* Sign bit of a two's complement value.
Negative(x) == x[Len(x)] >= 32768

\* x << k: the bits shifted out are dropped silently (no overflow check on
\* the value in any build).  `lost` tells whether the result differs from
\* the mathematical x * 2^k.
Shl(x, k, signed) ==
    LET r == ShlFrom(x, k, 1, 0)
        v == SubSeq(r, 1, Len(x))
    IN  [val  |-> v,
         lost |-> r[Len(x) + 1] # 0 \/ (signed /\ Negative(v) # Negative(x))]

\* x + y: `ovf` tells whether the addition overflows the width (a panic in a
\* build with overflow checks, a wrap otherwise).
Add(x, y, signed) ==
    LET r == AddFrom(x, y, 1, 0)
        v == SubSeq(r, 1, Len(x))
    IN  [val |-> v,
         ovf |-> IF signed
                 THEN Negative(x) = Negative(y) /\ Negative(v) # Negative(x)
                 ELSE r[Len(x) + 1] # 0]

\* (x << 1) + (x << 3) + d
ShiftAdd(x, d, signed) ==
    LET a  == Shl(x, 1, signed)
        b  == Shl(x, 3, signed)
        s1 == Add(a.val, b.val, signed)
        s2 == Add(s1.val, Limbs(d, Len(x)), signed)
    IN  [val  |-> s2.val,
         lost |-> a.lost \/ b.lost,
         ovf  |-> s1.ovf \/ s2.ovf]

\* -------------------------------------------------------------- diagnostics

RECURSIVE SplitLines(_, _)
\* str::split_terminator('\n'): the pieces between line feeds; an empty piece
\* after the last line feed is not a line.
SplitLines(bytes, cur) ==
    IF bytes = <<>> THEN (IF cur = <<>> THEN <<>> ELSE <<cur>>)
    ELSE IF Head(bytes) = 10 THEN <<cur>> \o SplitLines(Tail(bytes), <<>>)
    ELSE SplitLines(Tail(bytes), Append(cur, Head(bytes)))

\* A line without its trailing carriage return.
StripCr(line) ==
    IF line # <<>> /\ line[Len(line)] = 13 THEN SubSeq(line, 1, Len(line) - 1)
    ELSE line

\* str::lines()
Lines(bytes) ==
    LET ls == SplitLines(bytes, <<>>) IN [i \in DOMAIN ls |-> StripCr(ls[i])]

\* str::chars().count(): the bytes that are not UTF-8 continuation bytes.
CharCount(bytes) == Cardinality({i \in DOMAIN bytes : bytes[i] \notin 128..191})

\* Whether byte offset i of src is a char boundary (str::split_at panics
\* when it is not).
IsCharBoundary(src, i) ==
    i = 0 \/ i = Len(src) \/ (i > 0 /\ i < Len(src) /\ src[i + 1] \notin 128..191)

\* Parser::source_position_from_index, for index >= 1.
SourcePositionFromIndex(src, idx) ==
    LET bytes == SubSeq(src, 1, idx - 1)
        ls    == Lines(bytes)
    IN  [line   |-> Len(ls),
         column |-> IF ls = <<>> THEN 1 ELSE CharCount(ls[Len(ls)]) + 1]

\* The length unexpected_character gives the sequence that starts with a
\* byte >= 0x80 (0 when no branch matches).
SequenceLen(byte) ==
    IF BitAnd(byte, 224) = 206 THEN 2
    ELSE IF BitAnd(byte, 240) = 224 THEN 3
    ELSE IF BitAnd(byte, 248) = 240 THEN 4
    ELSE 0

IsCont(b) == b \in 128..191

\* str::from_utf8 on a buffer of 0..4 bytes holding at most one character.
Utf8Valid(buf) ==
    CASE Len(buf) = 0 -> TRUE
      [] Len(buf) = 1 -> buf[1] < 128
      [] Len(buf) = 2 -> buf[1] \in 194..223 /\ IsCont(buf[2])
      [] Len(buf) = 3 ->
            /\ buf[1] \in 224..239 /\ IsCont(buf[2]) /\ IsCont(buf[3])
            /\ (buf[1] = 224 => buf[2] >= 160)
            /\ (buf[1] = 237 => buf[2] <= 159)
      [] Len(buf) = 4 ->
            /\ buf[1] \in 240..244 /\ IsCont(buf[2]) /\ IsCont(buf[3]) /\ IsCont(buf[4])
            /\ (buf[1] = 240 => buf[2] >= 144)
            /\ (buf[1] = 244 => buf[2] <= 143)
      [] OTHER -> FALSE

\* The character (code point) a valid UTF-8 sequence encodes.
Utf8Decode(buf) ==
    CASE Len(buf) = 1 -> buf[1]
      [] Len(buf) = 2 -> ((buf[1] % 32) * 64) + (buf[2] % 64)
      [] Len(buf) = 3 ->
            ((buf[1] % 16) * 4096) + ((buf[2] % 64) * 64) + (buf[3] % 64)
      [] Len(buf) = 4 ->
            ((buf[1] % 8) * 262144) + ((buf[2] % 64) * 4096)
                + ((buf[3] % 64) * 64) + (buf[4] % 64)

\* ------------------------------------------------------------------ strings

\* read_hexdec_digit: the value of a hexadecimal digit, -1 for another byte.
HexValue(ch) ==
    IF ch \in 48..57 THEN ch - 48
    ELSE IF ch \in 97..102 THEN ch + 10 - 97
    ELSE IF ch \in 65..70 THEN ch + 10 - 65
    ELSE -1

RECURSIVE BitOr(_, _)
\* a | b on unsigned integers.
BitOr(a, b) ==
    IF a = 0 THEN b
    ELSE IF b = 0 THEN a
    ELSE (IF a % 2 = 1 \/ b % 2 = 1 THEN 1 ELSE 0) + 2 * BitOr(a \div 2, b \div 2)

\* (cp >> k) as u8
ShrU8(cp, k) == (cp \div (2 ^ k)) % 256

\* The second match of read_codepoint: the UTF-8 bytes pushed for a code
\* point, <<>> standing for the FailedUtf8Parsing arm.
EncodeCodepoint(cp) ==
    IF cp \in 0..127 THEN <<ShrU8(cp, 0)>>
    ELSE IF cp \in 128..2047 THEN
        <<BitOr(BitAnd(ShrU8(cp, 6), 31), 192),
          BitOr(BitAnd(ShrU8(cp, 0), 63), 128)>>
    ELSE IF cp \in 2048..65535 THEN
        <<BitOr(BitAnd(ShrU8(cp, 12), 15), 224),
          BitOr(BitAnd(ShrU8(cp, 6), 63), 128),
          BitOr(BitAnd(ShrU8(cp, 0), 63), 128)>>
    ELSE IF cp \in 65536..1114111 THEN
        <<BitOr(BitAnd(ShrU8(cp, 18), 7), 240),
          BitOr(BitAnd(ShrU8(cp, 12), 63), 128),
          BitOr(BitAnd(ShrU8(cp, 6), 63), 128),
          BitOr(BitAnd(ShrU8(cp, 0), 63), 128)>>
    ELSE <<>>

\* The first match of read_codepoint on the first code unit.
IsHighSurrogate(cp) == cp \in 55296..56319
IsLowSurrogate(cp) == cp \in 56320..57343
IsPlainUnit(cp) == cp \in 0..55295 \/ cp \in 57344..65535

\* (codepoint | lower - 0xDC00) + 0x010000, codepoint = (high - 0xD800) << 10
CombineSurrogates(high, lower) == ((high - 55296) * 1024 + (lower - 56320)) + 65536

\* ------------------------------------------------------------------- values

\* JsonValue: <<"null">>, <<"bool", b>>, <<"num", n>>, <<"str", bytes>>,
\* <<"arr", items>>, <<"obj", map>>.  A Number keeps what enters the f64
\* arithmetic: the u64 mantissa, the digits accumulated in floating point by
\* read_big_number, the fraction digits, and the exponent e * sign.
NoNumber ==
    [start |-> 0, neg |-> FALSE, mant |-> Limbs(0, 4), digits |-> 0,
     big |-> <<>>, dot |-> FALSE, frac |-> <<>>, hasExp |-> FALSE,
     sign |-> 1, e |-> Limbs(0, 2)]

NoString == [start |-> 0, buffer |-> <<>>, key |-> FALSE, cp |-> 0, nhex |-> 0, acc |-> 0]

NoLiteral == [rest |-> <<>>, val |-> <<"null">>]

\* BTreeMap::new()
EmptyMap == <<>>

\* Insert with the fault of keeping the value a key already has
\* (entry().or_insert): C7 must tell it from Insert.
InsertKeepsFirst(map, k, v) ==
    [x \in (DOMAIN map) \cup {k} |-> IF x \in DOMAIN map THEN map[x] ELSE v]

\* BTreeMap::insert: the key maps to the new value, whatever it mapped to.
Insert(map, k, v) ==
    [x \in (DOMAIN map) \cup {k} |-> IF x = k THEN v ELSE map[x]]

\* The frames of read_array / read_object in progress.
ArrayFrame == [kind |-> "arr", items |-> <<>>, map |-> EmptyMap, key |-> <<>>, hist |-> <<>>]
ObjectFrame == [kind |-> "obj", items |-> <<>>, map |-> EmptyMap, key |-> <<>>, hist |-> <<>>]

Top(stk) == stk[Len(stk)]
Pop(stk) == SubSeq(stk, 1, Len(stk) - 1)

\* array.push(value) / object.insert(key, value) in the enclosing frame.
StackAfter(stk, v) ==
    IF stk = <<>> THEN stk
    ELSE IF Top(stk).kind = "arr"
         THEN [stk EXCEPT ![Len(stk)].items = Append(@, v)]
         ELSE [stk EXCEPT ![Len(stk)].map = Insert(@, Top(stk).key, v),
                          ![Len(stk)].hist = Append(@, <<Top(stk).key, v>>)]

\* Where the parser continues once a value is complete: the loop of the
\* enclosing read_array / read_object, or ensure_end at top level.
PcAfter(stk) ==
    IF stk = <<>> THEN "end"
    ELSE IF Top(stk).kind = "arr" THEN "arr_next" ELSE "obj_next"

\* ------------------------------------------------------------------- inputs

\* Bounds of the input families.
MaxNumLen == 4
MaxStructLen == 4
MaxPairs == 3
MaxDigits == 20
MaxExpDigits == 11
MaxWs == 2

\* Characters of 2, 3 and 4 bytes: U+00E9, U+03B1, U+20AC, U+1F600.
Ch2a == <<195, 169>>
Ch2b == <<206, 177>>
Ch3 == <<226, 130, 172>>
Ch4 == <<240, 159, 152, 128>>

\* Documents that cross every program point of the parser.
CoreDocs ==
    {T(<<"[", "]">>),
     T(<<"[", "1", " ", ",", " ", "\"", "a", "\"", "]">>),
     T(<<"[", "[", "0", "]", ",", "-", "2", "]">>),
     T(<<"{", "}">>),
     T(<<"{", "\"", "a", "\"", ":", "{", "\"", "a", "\"", ":", "1", "}", ",", "\"", "a", "\"", ":", "2", "}">>),
     T(<<"{", " ", "\"", "b", "\"", " ", ":", " ", "[", "]", " ", "}">>),
     T(<<"t", "r", "u", "e">>),
     T(<<"f", "a", "l", "s", "e">>),
     T(<<"n", "u", "l", "l">>),
     T(<<"\"", "a">>) \o Ch3 \o T(<<"b", "\"">>),
     T(<<"\"", "a", "\\", "n", "\"">>),
     T(<<"\"", "\\", "\"", "\\", "\\", "\\", "/", "\\", "b", "\\", "f", "\\", "t", "\\", "r", "\"">>),
     T(<<"\"", "\\", "u", "0", "0", "e", "9", "\"">>),
     T(<<"\"", "\\", "u", "2", "0", "A", "C", "\"">>),
     T(<<"\"", "\\", "u", "D", "8", "3", "D", "\\", "u", "D", "E", "0", "0", "\"">>),
     T(<<"\"", "\\", "u", "d", "c", "0", "0", "\"">>),
     T(<<"-", "1", "2", ".", "5", "e", "+", "1">>),
     T(<<"0", ".", "5">>),
     T(<<"1", "E", "-", "2">>),
     T(<<"-", "0">>),
     T(<<"\n", " ", "[", " ", "1", " ", "]", "\n">>),
     T(<<"[", "\t", "n", "u", "l", "l", ",", "t", "r", "u", "e", "]">>)}

\* Strings with a high surrogate escape and what may follow it.
SurrogateDocs ==
    {T(<<"\"", "\\", "u", "D", "8", "0", "0", "\"">>),
     T(<<"\"", "\\", "u", "D", "8", "0", "0", "\\", "u", "D", "C", "0", "0", "\"">>),
     T(<<"\"", "\\", "u", "D", "8", "0", "0", "\\", "u", "D", "F", "F", "F", "\"">>),
     T(<<"\"", "\\", "u", "D", "8", "0", "0", "\\", "u", "D", "B", "F", "F", "\"">>),
     T(<<"\"", "\\", "u", "D", "8", "0", "0", "\\", "u", "E", "0", "0", "0", "\"">>),
     T(<<"\"", "\\", "u", "D", "8", "0", "0", "\\", "u", "0", "0", "4", "1", "\"">>),
     T(<<"\"", "\\", "u", "D", "8", "0", "0", "\\", "n", "\"">>),
     T(<<"\"", "\\", "u", "D", "8", "0", "0", "x", "\"">>),
     T(<<"\"", "\\", "u", "D", "8", "0", "0">>) \o Ch2a \o T(<<"\"">>),
     T(<<"\"", "\\", "u", "D", "B", "F", "F", "\"">>),
     T(<<"\"", "\\", "u", "D", "B", "F", "F", "\\", "u", "D", "C", "0", "0", "\"">>),
     T(<<"\"", "\\", "u", "D", "B", "F", "F", "\\", "u", "D", "F", "F", "F", "\"">>),
     T(<<"\"", "\\", "u", "D", "B", "F", "F", "\\", "u", "D", "B", "F", "F", "\"">>),
     T(<<"\"", "\\", "u", "D", "B", "F", "F", "\\", "u", "E", "0", "0", "0", "\"">>),
     T(<<"\"", "\\", "u", "D", "B", "F", "F", "\\", "u", "0", "0", "4", "1", "\"">>),
     T(<<"\"", "\\", "u", "D", "B", "F", "F", "\\", "n", "\"">>),
     T(<<"\"", "\\", "u", "D", "B", "F", "F", "x", "\"">>),
     T(<<"\"", "\\", "u", "D", "B", "F", "F">>) \o Ch2a \o T(<<"\"">>)}

\* Exponents at the edge of the 32-bit range.
ExponentDocs ==
    {T(<<"1", "e", "2", "1", "4", "7", "4", "8", "3", "6", "4", "7">>),
     T(<<"1", "e", "2", "1", "4", "7", "4", "8", "3", "6", "4", "8">>),
     T(<<"1", "e", "-", "2", "1", "4", "7", "4", "8", "3", "6", "4", "8">>),
     T(<<"1", "E", "+", "0", "0", "0", "0", "0", "0", "0", "0", "0", "0", "0", "0", "1">>)}


\* The prefixes of a text that end on a character boundary (the source is a
\* &str: valid UTF-8).
Prefixes(d) == {SubSeq(d, 1, k) : k \in {j \in 0..Len(d) : IsCharBoundary(d, j)}}

\* Number-like texts: every text over the bytes of a number.
NumSeqs ==
    UNION {[1..k -> {B("-"), B("+"), B("0"), B("1"), B("."), B("e")}] : k \in 1..MaxNumLen}

\* Structure-like texts: every text over the bytes of arrays and objects.
StructSeqs ==
    UNION {[1..k -> {B("["), B("]"), B("{"), B("}"), B("\""), B(":"), B(","),
                     B("1"), B(" ")}] : k \in 1..MaxStructLen}

\* Integer digit runs up to MaxDigits digits, alone or before a fraction or
\* an exponent.
DigitDocs ==
    {T(<<f>>) \o Rep(T(<<d>>), MaxDigits - 1) \o suf :
        f \in {"1", "9"}, d \in {"0", "9"},
        suf \in {<<>>, T(<<".", "5">>), T(<<"e", "1">>)}}

\* Exponent digit runs up to MaxExpDigits digits.
ExponentRuns ==
    {T(<<"1", "e">>) \o sg \o Rep(T(<<d>>), MaxExpDigits) :
        sg \in {<<>>, T(<<"-">>)}, d \in {"1", "9"}}

RECURSIVE Join(_)
\* "k":v,"k":v,...
Join(ps) ==
    IF ps = <<>> THEN <<>>
    ELSE Head(ps)[1] \o T(<<":">>) \o Head(ps)[2]
         \o (IF Tail(ps) = <<>> THEN <<>> ELSE T(<<",">>) \o Join(Tail(ps)))

\* Objects of up to MaxPairs members whose keys repeat: "a" is spelled
\* plainly and as an escape.
ObjKeys == {T(<<"\"", "a", "\"">>), T(<<"\"", "b", "\"">>),
            T(<<"\"", "\\", "u", "0", "0", "6", "1", "\"">>)}
ObjVals == {T(<<"1">>), T(<<"2">>)}
ObjDocs ==
    {T(<<"{">>) \o Join(ps) \o T(<<"}">>) :
        ps \in UNION {[1..k -> ObjKeys \X ObjVals] : k \in 1..MaxPairs}}

\* What may follow a text: whitespace, then nothing or a byte no production
\* accepts there.
WsRuns == UNION {[1..k -> {B("\n"), B(" ")}] : k \in 0..MaxWs}
BadChars == {T(<<"x">>), Ch2a, Ch2b, Ch3, Ch4}
Tails == {w \o c : w \in WsRuns, c \in BadChars \cup {<<>>}}

Cut == UNION {Prefixes(d) : d \in CoreDocs \cup SurrogateDocs}

Inputs ==
    {p \o t : p \in Cut, t \in Tails}
        \cup UNION {Prefixes(d) : d \in DigitDocs \cup ExponentDocs \cup ExponentRuns}
        \cup NumSeqs
        \cup StructSeqs
        \cup ObjDocs

\* ---------------------------------------------------------------- the state

VARIABLES
    source,     \* Parser.source: the input bytes (length = Len(source))
    index,      \* Parser.index
    pc,         \* the program point of the parser
    retpc,      \* where the parser continues after `index -= 1`
    stack,      \* the read_array / read_object calls in progress
    value,      \* the value parser.value() returned
    result,     \* what parse returns, <<"none">> while it runs
    num,        \* the locals of the number scanners
    str,        \* the locals of the string scanners
    lit,        \* the bytes sequence! still has to match, and the literal
    fail,       \* the byte handed to unexpected_character
    gh          \* history of the run (not program state)

vars == <<source, index, pc, retpc, stack, value, result, num, str, lit, fail, gh>>

NoHistory ==
    [lastRead |-> -1,       \* the index dereferenced by the last step
     fresh |-> FALSE,       \* the last cursor operation consumed a byte
     eofAt |-> "",          \* the program point where the input ran out
     failAt |-> -1,         \* the offset of the byte handed to unexpected_character
     numWrapped |-> FALSE,  \* a step of the u64 accumulation overflowed
     expWrapped |-> FALSE,  \* a step of the i32 accumulation overflowed
     numTok |-> <<>>,       \* the text of the last number token returned
     values |-> 0,          \* the values completed so far
     objMap |-> EmptyMap,   \* the last object returned by read_object ...
     objHist |-> <<>>,      \* ... and its members in input order
     objects |-> 0,         \* the objects returned so far
     high |-> "none",       \* what followed the last high surrogate escape
     low |-> -1,            \* the code unit read after it
     valueEnd |-> -1]       \* the index where parser.value() returned

\* Parser::new, at the entry of parse.
Init ==
    /\ source \in Inputs
    /\ index = 0
    /\ pc = "value"
    /\ retpc = ""
    /\ stack = <<>>
    /\ value = <<"null">>
    /\ result = <<"none">>
    /\ num = NoNumber
    /\ str = NoString
    /\ lit = NoLiteral
    /\ fail = 0
    /\ gh = NoHistory

\* ---------------------------------------------------------------- the cursor

\* HasByte with the fault of an inclusive bound: C9 must tell it from HasByte.
HasByteInclusive == index <= Len(source)

\* next_byte!: `if $parser.index < $parser.length`
HasByte == index < Len(source)

\* `*byte_ptr.offset(index)`.  A read at or past `length` leaves the buffer;
\* it is given the value 0 here and is reported by gh.lastRead.
ByteAt(i) == IF i < Len(source) THEN source[i + 1] ELSE 0

\* The history after next_byte! has consumed the byte at `index`.
Read == [gh EXCEPT !.lastRead = index, !.fresh = TRUE]

\* The history after next_byte! has found no byte at program point p.
Ended(p) == [gh EXCEPT !.lastRead = -1, !.fresh = FALSE, !.eofAt = p]

\* next_byte!($parser): `return Err(JsonError::UnexpectedEndOfJson)`
EndOfJson(p) ==
    /\ pc' = "done"
    /\ result' = <<"UnexpectedEndOfJson">>
    /\ gh' = Ended(p)
    /\ UNCHANGED <<source, index, retpc, stack, value, num, str, lit, fail>>

\* next_byte!($parser || ...) where the alternative ends the number being
\* read: the scanner goes on at program point p without a byte.
NumberEnds(here, p) ==
    /\ pc' = p
    /\ gh' = Ended(here)
    /\ UNCHANGED <<source, index, retpc, stack, value, result, num, str, lit, fail>>

\* The byte is consumed and the parser goes on at program point p.
Advance(p, nnum, nstr, nlit, nstack) ==
    /\ index' = index + 1
    /\ pc' = p
    /\ gh' = Read
    /\ num' = nnum /\ str' = nstr /\ lit' = nlit /\ stack' = nstack
    /\ UNCHANGED <<source, retpc, value, result, fail>>

\* The byte is consumed and then pushed back (`index -= 1`, the next step)
\* before the parser goes on at program point p.
PushBack(p, nnum) ==
    /\ index' = index + 1
    /\ pc' = "rewind"
    /\ retpc' = p
    /\ gh' = Read
    /\ num' = nnum
    /\ UNCHANGED <<source, stack, value, result, str, lit, fail>>

\* `return $parser.unexpected_character(ch)` for the byte just consumed.
Unexpected(ch) ==
    /\ index' = index + 1
    /\ pc' = "uc"
    /\ fail' = ch
    /\ gh' = [Read EXCEPT !.failAt = index]
    /\ UNCHANGED <<source, retpc, stack, value, result, num, str, lit>>

\* The scanner returns an error without reading further.
Fails(err, ni, g) ==
    /\ index' = ni
    /\ pc' = "done"
    /\ result' = err
    /\ gh' = g
    /\ UNCHANGED <<source, retpc, stack, value, num, str, lit, fail>>

\* A value is complete: it is pushed / inserted into the enclosing array or
\* object (stk), or returned by parser.value() at top level.
Complete(v, stk, ni, g) ==
    /\ index' = ni
    /\ stack' = StackAfter(stk, v)
    /\ value' = IF stk = <<>> THEN v ELSE value
    /\ pc' = PcAfter(stk)
    /\ gh' = [g EXCEPT !.values = @ + 1,
                       !.valueEnd = IF stk = <<>> THEN ni ELSE @]
    /\ UNCHANGED <<source, retpc, result, num, str, lit, fail>>

\* `$parser.index -= 1`
Rewind ==
    /\ pc = "rewind"
    /\ index' = index - 1
    /\ pc' = retpc
    /\ gh' = [gh EXCEPT !.lastRead = -1, !.fresh = FALSE]
    /\ UNCHANGED <<source, retpc, stack, value, result, num, str, lit, fail>>

\* ------------------------------------------------------------ expect_value!

StartString(isKey) == [NoString EXCEPT !.start = index + 1, !.key = isKey]

\* expect_value!: next_byte!, consume_whitespace!, and the match on the byte.
\* `closeEmpty` is the extra arm `b']' => return Ok(Vec::new())` read_array
\* gives its first value.
ExpectValue(here, closeEmpty) ==
    IF ~HasByte THEN EndOfJson(here)
    ELSE LET ch == ByteAt(index) IN
        IF IsWhitespace(ch) THEN Advance(here, num, str, lit, stack)
        ELSE IF closeEmpty /\ ch = B("]") THEN
            Complete(<<"arr", <<>>>>, Pop(stack), index + 1, Read)
        ELSE IF ch = B("[") THEN
            Advance("arr_first", num, str, lit, Append(stack, ArrayFrame))
        ELSE IF ch = B("{") THEN
            Advance("obj_first", num, str, lit, Append(stack, ObjectFrame))
        ELSE IF ch = B("\"") THEN
            Advance("str_fast", num, StartString(FALSE), lit, stack)
        ELSE IF ch = B("0") THEN
            Advance("frac_dot", [NoNumber EXCEPT !.start = index], str, lit, stack)
        ELSE IF ch \in 49..57 THEN
            Advance("num_int",
                    [NoNumber EXCEPT !.start = index, !.mant = Limbs(ch - 48, 4)],
                    str, lit, stack)
        ELSE IF ch = B("-") THEN
            Advance("minus", [NoNumber EXCEPT !.start = index, !.neg = TRUE],
                    str, lit, stack)
        ELSE IF ch = B("t") THEN
            Advance("lit", num, str,
                    [rest |-> T(<<"r", "u", "e">>), val |-> <<"bool", TRUE>>], stack)
        ELSE IF ch = B("f") THEN
            Advance("lit", num, str,
                    [rest |-> T(<<"a", "l", "s", "e">>), val |-> <<"bool", FALSE>>], stack)
        ELSE IF ch = B("n") THEN
            Advance("lit", num, str,
                    [rest |-> T(<<"u", "l", "l">>), val |-> <<"null">>], stack)
        ELSE Unexpected(ch)

\* Parser::value, and the values after `,` and `:`.
Value == pc = "value" /\ ExpectValue("value", FALSE)

\* read_array: `let first = expect_value!{ self, b']' => return Ok(Vec::new()) }`
ArrFirst == pc = "arr_first" /\ ExpectValue("arr_first", TRUE)

\* sequence!: the next byte of true / false / null.
Literal ==
    /\ pc = "lit"
    /\ IF ~HasByte THEN EndOfJson("lit")
       ELSE LET ch == ByteAt(index) IN
           IF ch # Head(lit.rest) THEN Unexpected(ch)
           ELSE IF Tail(lit.rest) = <<>> THEN Complete(lit.val, stack, index + 1, Read)
           ELSE Advance("lit", num, str, [lit EXCEPT !.rest = Tail(@)], stack)

\* ---------------------------------------------------------------- numbers

\* DigitCap with the fault of one more digit read into the u64: C8 must tell
\* it from DigitCap.
DigitCapLate == 18 + 1

\* The cap of expect_number! on the digits read into the u64.
DigitCap == 18

\* MinusAtEnd with the fault of `next_byte!($parser || ...)` ending the
\* number: C2 must tell it from MinusAtEnd.
MinusAtEndAccepts == NumberEnds("minus", "num_done")

\* b'-' => { let ch = next_byte!($parser); ... }: no byte after the sign.
MinusAtEnd == EndOfJson("minus")

\* expect_value!, the arm b'-'.
Minus ==
    /\ pc = "minus"
    /\ IF ~HasByte THEN MinusAtEnd
       ELSE LET ch == ByteAt(index) IN
           IF ch = B("0") THEN Advance("frac_dot", num, str, lit, stack)
           ELSE IF ch \in 49..57 THEN
               Advance("num_int", [num EXCEPT !.mant = Limbs(ch - 48, 4)], str, lit, stack)
           ELSE Unexpected(ch)

\* An overflowing addition panics in a build with overflow checks and wraps
\* in a build without: both outcomes are kept.
Overflows(ovf, ni, g, wrap) ==
    IF ovf THEN Fails(<<"Panic">>, ni, g) \/ wrap ELSE wrap

\* expect_number!: the loop reading digits into the u64.
NumInt ==
    /\ pc = "num_int"
    /\ IF num.digits = DigitCap THEN
           \* read_big_number(num as f64)
           /\ pc' = "big"
           /\ gh' = [gh EXCEPT !.lastRead = -1]
           /\ UNCHANGED <<source, index, retpc, stack, value, result, num, str, lit, fail>>
       ELSE LET n1 == [num EXCEPT !.digits = @ + 1] IN
           IF ~HasByte THEN
               /\ pc' = "num_done"
               /\ num' = n1
               /\ gh' = Ended("num_int")
               /\ UNCHANGED <<source, index, retpc, stack, value, result, str, lit, fail>>
           ELSE LET ch == ByteAt(index) IN
               IF IsDigit(ch) THEN
                   LET r == ShiftAdd(num.mant, ch - 48, FALSE)
                       g == [Read EXCEPT !.numWrapped = @ \/ r.lost \/ r.ovf]
                   IN  Overflows(r.ovf, index + 1, g,
                           /\ index' = index + 1
                           /\ num' = [n1 EXCEPT !.mant = r.val]
                           /\ gh' = g
                           /\ UNCHANGED <<source, pc, retpc, stack, value, result,
                                          str, lit, fail>>)
               ELSE IF ch \in {B("."), B("e"), B("E")} THEN PushBack("frac_dot", n1)
               ELSE PushBack("num_done", n1)

\* read_big_number: read_num! accumulating in floating point.
BigNumber ==
    /\ pc = "big"
    /\ IF ~HasByte THEN NumberEnds("big", "frac_dot")
       ELSE LET ch == ByteAt(index) IN
           IF IsDigit(ch) THEN
               Advance("big", [num EXCEPT !.big = Append(@, ch - 48)], str, lit, stack)
           ELSE PushBack("frac_dot", num)

\* read_number_with_fraction: `if next_byte!(self || return Ok(num)) == b'.'`
FracDot ==
    /\ pc = "frac_dot"
    /\ IF ~HasByte THEN NumberEnds("frac_dot", "num_done")
       ELSE LET ch == ByteAt(index) IN
           IF ch = B(".") THEN Advance("frac_digits", [num EXCEPT !.dot = TRUE], str, lit, stack)
           ELSE PushBack("exp_mark", num)

\* read_number_with_fraction: read_num! over the fraction digits.
FracDigits ==
    /\ pc = "frac_digits"
    /\ IF ~HasByte THEN NumberEnds("frac_digits", "exp_mark")
       ELSE LET ch == ByteAt(index) IN
           IF IsDigit(ch) THEN
               Advance("frac_digits", [num EXCEPT !.frac = Append(@, ch - 48)], str, lit, stack)
           ELSE PushBack("exp_mark", num)

\* read_number_with_fraction: `match next_byte!(self || return Ok(num))`
ExpMark ==
    /\ pc = "exp_mark"
    /\ IF ~HasByte THEN NumberEnds("exp_mark", "num_done")
       ELSE LET ch == ByteAt(index) IN
           IF ch \in {B("e"), B("E")} THEN
               Advance("exp_sign", [num EXCEPT !.hasExp = TRUE], str, lit, stack)
           ELSE PushBack("num_done", num)

\* read_number_with_fraction: `let sign = match next_byte!(self)`
ExpSign ==
    /\ pc = "exp_sign"
    /\ IF ~HasByte THEN EndOfJson("exp_sign")
       ELSE LET ch == ByteAt(index) IN
           IF ch = B("-") THEN Advance("exp_first", [num EXCEPT !.sign = -1], str, lit, stack)
           ELSE IF ch = B("+") THEN Advance("exp_first", [num EXCEPT !.sign = 1], str, lit, stack)
           ELSE PushBack("exp_first", [num EXCEPT !.sign = 1])

\* read_number_with_fraction: the first digit of the exponent.
ExpFirst ==
    /\ pc = "exp_first"
    /\ IF ~HasByte THEN EndOfJson("exp_first")
       ELSE LET ch == ByteAt(index) IN
           IF IsDigit(ch) THEN
               Advance("exp_digits", [num EXCEPT !.e = Limbs(ch - 48, 2)], str, lit, stack)
           ELSE Unexpected(ch)

\* read_number_with_fraction: read_num! accumulating the exponent in an i32.
ExpDigits ==
    /\ pc = "exp_digits"
    /\ IF ~HasByte THEN NumberEnds("exp_digits", "num_done")
       ELSE LET ch == ByteAt(index) IN
           IF IsDigit(ch) THEN
               LET r == ShiftAdd(num.e, ch - 48, TRUE)
                   g == [Read EXCEPT !.expWrapped = @ \/ r.lost \/ r.ovf]
               IN  Overflows(r.ovf, index + 1, g,
                       /\ index' = index + 1
                       /\ num' = [num EXCEPT !.e = r.val]
                       /\ gh' = g
                       /\ UNCHANGED <<source, pc, retpc, stack, value, result,
                                      str, lit, fail>>)
           ELSE PushBack("num_done", num)

\* e * sign: the negation of an i32 overflows for i32::MIN alone.
ExponentOverflows == num.hasExp /\ num.sign = -1 /\ num.e = <<0, 32768>>

\* The Number a scanner returns: `num as f64`, the digits added in floating
\* point, `num *= 10f64.powi(e * sign)`, and `-num` after a leading '-'.
NumberValue ==
    <<"num", [neg |-> num.neg, mant |-> num.mant, big |-> num.big, frac |-> num.frac,
              exp |-> IF num.hasExp THEN <<num.sign, num.e>> ELSE <<>>]>>

\* The end of expect_number! / read_number_with_fraction: JsonValue::Number.
NumDone ==
    /\ pc = "num_done"
    /\ LET g == [gh EXCEPT !.lastRead = -1,
                           !.expWrapped = @ \/ ExponentOverflows,
                           !.numTok = SubSeq(source, num.start + 1, index)]
       IN  Overflows(ExponentOverflows, index, g, Complete(NumberValue, stack, index, g))

\* ----------------------------------------------------------------- strings

\* A string is complete: it is the key of the object being read, or a value.
StringDone(s) ==
    IF str.key THEN
        /\ index' = index + 1
        /\ stack' = [stack EXCEPT ![Len(stack)].key = s]
        /\ pc' = "obj_colon"
        /\ gh' = Read
        /\ UNCHANGED <<source, retpc, value, result, num, str, lit, fail>>
    ELSE Complete(<<"str", s>>, stack, index + 1, Read)

\* expect_string!: the scan for `"` or `\`.
StrFast ==
    /\ pc = "str_fast"
    /\ IF ~HasByte THEN EndOfJson("str_fast")
       ELSE LET ch == ByteAt(index) IN
           IF ch = B("\"") THEN StringDone(SubSeq(source, str.start + 1, index))
           ELSE IF ch = B("\\") THEN
               \* read_complex_string(start): the buffer starts with the
               \* bytes scanned so far
               Advance("str_esc", num,
                       [str EXCEPT !.buffer = SubSeq(source, str.start + 1, index)],
                       lit, stack)
           ELSE Advance("str_fast", num, str, lit, stack)

\* read_complex_string: `ch = next_byte!(self)` and the match on ch.
StrComplex ==
    /\ pc = "str_cx"
    /\ IF ~HasByte THEN EndOfJson("str_cx")
       ELSE LET ch == ByteAt(index) IN
           IF ch = B("\"") THEN StringDone(str.buffer)
           ELSE IF ch = B("\\") THEN Advance("str_esc", num, str, lit, stack)
           ELSE Advance("str_cx", num, [str EXCEPT !.buffer = Append(@, ch)], lit, stack)

\* The byte an escape stands for, -1 for a byte that is no escape.
Escaped(ch) ==
    IF ch \in {B("\""), B("\\"), B("/")} THEN ch
    ELSE IF ch = B("b") THEN 8
    ELSE IF ch = B("f") THEN 12
    ELSE IF ch = B("t") THEN 9
    ELSE IF ch = B("r") THEN 13
    ELSE IF ch = B("n") THEN 10
    ELSE -1

\* read_complex_string: `let escaped = next_byte!(self)` after a `\`.
StrEscape ==
    /\ pc = "str_esc"
    /\ IF ~HasByte THEN EndOfJson("str_esc")
       ELSE LET ch == ByteAt(index) IN
           IF ch = B("u") THEN
               Advance("hex", num, [str EXCEPT !.nhex = 0, !.acc = 0], lit, stack)
           ELSE IF Escaped(ch) >= 0 THEN
               Advance("str_cx", num, [str EXCEPT !.buffer = Append(@, Escaped(ch))],
                       lit, stack)
           ELSE Unexpected(ch)

\* LowInRange with the fault of accepting every surrogate: C5 must tell it
\* from LowInRange.
LowInRangeLoose(lower) == lower \in 55296..57343

\* `if let 0xDC00 ... 0xDFFF = lower`
LowInRange(lower) == IsLowSurrogate(lower)

\* read_codepoint with the first code unit read: its two matches.
FirstUnit(cp) ==
    IF IsPlainUnit(cp) THEN
        Advance("str_cx", num,
                [str EXCEPT !.buffer = @ \o EncodeCodepoint(cp), !.nhex = 0, !.acc = 0],
                lit, stack)
    ELSE IF IsHighSurrogate(cp) THEN
        /\ index' = index + 1
        /\ pc' = "sur_bs"
        /\ str' = [str EXCEPT !.cp = cp, !.nhex = 0, !.acc = 0]
        /\ gh' = [Read EXCEPT !.high = "pending"]
        /\ UNCHANGED <<source, retpc, stack, value, result, num, lit, fail>>
    ELSE Fails(<<"FailedUtf8Parsing">>, index + 1, Read)

\* read_codepoint with the code unit after a high surrogate read.
SecondUnit(lower) ==
    IF LowInRange(lower) THEN
        LET bytes == EncodeCodepoint(CombineSurrogates(str.cp, lower)) IN
        IF bytes = <<>> THEN
            Fails(<<"FailedUtf8Parsing">>, index + 1,
                  [Read EXCEPT !.high = "unit", !.low = lower])
        ELSE
            /\ index' = index + 1
            /\ pc' = "str_cx"
            /\ str' = [str EXCEPT !.buffer = @ \o bytes, !.nhex = 0, !.acc = 0]
            /\ gh' = [Read EXCEPT !.high = "unit", !.low = lower]
            /\ UNCHANGED <<source, retpc, stack, value, result, num, lit, fail>>
    ELSE Fails(<<"FailedUtf8Parsing">>, index + 1,
               [Read EXCEPT !.high = "unit", !.low = lower])

\* read_hexdec_codepoint, one read_hexdec_digit at a time: the four digits
\* are shifted by 12, 8, 4 and 0 and or-ed.
HexDigit(here, second) ==
    IF ~HasByte THEN EndOfJson(here)
    ELSE LET ch == ByteAt(index) IN
        IF HexValue(ch) < 0 THEN Unexpected(ch)
        ELSE LET acc == BitOr(str.acc, HexValue(ch) * (2 ^ (12 - 4 * str.nhex))) IN
            IF str.nhex = 3 THEN (IF second THEN SecondUnit(acc) ELSE FirstUnit(acc))
            ELSE Advance(here, num, [str EXCEPT !.nhex = @ + 1, !.acc = acc], lit, stack)

\* read_codepoint: `let mut codepoint = try!(self.read_hexdec_codepoint())`
Hex == pc = "hex" /\ HexDigit("hex", FALSE)

\* read_codepoint: `let lower = try!(self.read_hexdec_codepoint())`
HexLow == pc = "hex_low" /\ HexDigit("hex_low", TRUE)

\* sequence!(self, b'\\', b'u') after a high surrogate: one byte of it.
SurrogateSequence(here, want, next) ==
    IF ~HasByte THEN
        /\ pc' = "done"
        /\ result' = <<"UnexpectedEndOfJson">>
        /\ gh' = [Ended(here) EXCEPT !.high = "eof"]
        /\ UNCHANGED <<source, index, retpc, stack, value, num, str, lit, fail>>
    ELSE LET ch == ByteAt(index) IN
        IF ch = want THEN Advance(next, num, str, lit, stack)
        ELSE
            /\ index' = index + 1
            /\ pc' = "uc"
            /\ fail' = ch
            /\ gh' = [Read EXCEPT !.failAt = index, !.high = "missing"]
            /\ UNCHANGED <<source, retpc, stack, value, result, num, str, lit>>

SurBackslash == pc = "sur_bs" /\ SurrogateSequence("sur_bs", B("\\"), "sur_u")

SurU == pc = "sur_u" /\ SurrogateSequence("sur_u", B("u"), "hex_low")

\* ------------------------------------------------------- arrays and objects

\* expect!: next_byte!, consume_whitespace!, and the match on the byte; the
\* arms are those for the byte ByteAt(index) that is not whitespace.
Expect(here, arms) ==
    IF ~HasByte THEN EndOfJson(here)
    ELSE IF IsWhitespace(ByteAt(index)) THEN Advance(here, num, str, lit, stack)
    ELSE arms

\* read_array: `expect!{ self, b']' => break, b',' => { expect_value! } }`
ArrNext ==
    /\ pc = "arr_next"
    /\ LET ch == ByteAt(index)
           arms ==
               IF ch = B("]") THEN
                   Complete(<<"arr", Top(stack).items>>, Pop(stack), index + 1, Read)
               ELSE IF ch = B(",") THEN Advance("value", num, str, lit, stack)
               ELSE Unexpected(ch)
       IN  Expect("arr_next", arms)

\* read_object returns: Ok(object).
ObjectDone ==
    Complete(<<"obj", Top(stack).map>>, Pop(stack), index + 1,
             [Read EXCEPT !.objMap = Top(stack).map, !.objHist = Top(stack).hist,
                          !.objects = @ + 1])

\* read_object: `expect!{ self, b'}' => return Ok(object), b'\"' => expect_string! }`
ObjFirst ==
    /\ pc = "obj_first"
    /\ LET ch == ByteAt(index)
           arms ==
               IF ch = B("}") THEN ObjectDone
               ELSE IF ch = B("\"") THEN Advance("str_fast", num, StartString(TRUE), lit, stack)
               ELSE Unexpected(ch)
       IN  Expect("obj_first", arms)

\* read_object: `expect!(self, b':')`
ObjColon ==
    /\ pc = "obj_colon"
    /\ LET ch == ByteAt(index)
           arms ==
               IF ch = B(":") THEN Advance("value", num, str, lit, stack)
               ELSE Unexpected(ch)
       IN  Expect("obj_colon", arms)

\* read_object: `expect!{ self, b'}' => break, b',' => { ... } }`
ObjNext ==
    /\ pc = "obj_next"
    /\ LET ch == ByteAt(index)
           arms ==
               IF ch = B("}") THEN ObjectDone
               ELSE IF ch = B(",") THEN Advance("obj_key", num, str, lit, stack)
               ELSE Unexpected(ch)
       IN  Expect("obj_next", arms)

\* read_object: `expect!(self, b'"'); expect_string!(self)` after a `,`.
ObjKey ==
    /\ pc = "obj_key"
    /\ LET ch == ByteAt(index)
           arms ==
               IF ch = B("\"") THEN Advance("str_fast", num, StartString(TRUE), lit, stack)
               ELSE Unexpected(ch)
       IN  Expect("obj_key", arms)

\* ------------------------------------------------------- the top-level driver

\* Parser::ensure_end, and `Ok(value)` of parse once it returns.
EnsureEnd ==
    /\ pc = "end"
    /\ IF ~HasByte THEN Fails(<<"Ok", value>>, index, Ended("end"))
       ELSE LET ch == ByteAt(index) IN
           IF IsWhitespace(ch) THEN Advance("end", num, str, lit, stack)
           ELSE Unexpected(ch)

\* -------------------------------------------------------------- diagnostics

\* Parser::unexpected_character(byte), the byte being the one before `index`.
UnexpectedCharacter ==
    /\ pc = "uc"
    /\ LET pos   == SourcePositionFromIndex(source, index)
           len   == SequenceLen(fail)
           more  == IF len = 0 THEN 0 ELSE len - 1
           buf   == IF len = 0 THEN <<>>
                    ELSE <<fail>> \o SubSeq(source, index + 1, index + more)
           quiet == [gh EXCEPT !.lastRead = -1]
           read  == [gh EXCEPT !.lastRead = index + more - 1, !.fresh = TRUE]
       IN
       IF ~IsCharBoundary(source, index - 1) THEN
           \* split_at(index - 1) inside a character
           Fails(<<"Panic">>, index, quiet)
       ELSE IF fail < 128 THEN
           Fails(<<"UnexpectedCharacter", fail, pos.line, pos.column>>, index, quiet)
       ELSE IF index + more > Len(source) THEN
           \* a next_byte! of the continuation bytes finds none
           Fails(<<"UnexpectedEndOfJson">>, Len(source),
                 [Ended("uc") EXCEPT !.fresh = FALSE])
       ELSE IF ~Utf8Valid(buf) THEN
           Fails(<<"FailedUtf8Parsing">>, index + more, IF more = 0 THEN quiet ELSE read)
       ELSE IF buf = <<>> THEN
           \* slice.chars().next().unwrap() on the empty string
           Fails(<<"Panic">>, index, quiet)
       ELSE
           Fails(<<"UnexpectedCharacter", Utf8Decode(buf), pos.line, pos.column>>,
                 index + more, IF more = 0 THEN quiet ELSE read)

Next ==
    \/ Value \/ ArrFirst \/ Literal
    \/ Minus \/ NumInt \/ BigNumber \/ FracDot \/ FracDigits
    \/ ExpMark \/ ExpSign \/ ExpFirst \/ ExpDigits \/ NumDone \/ Rewind
    \/ StrFast \/ StrComplex \/ StrEscape \/ Hex \/ HexLow \/ SurBackslash \/ SurU
    \/ ArrNext \/ ObjFirst \/ ObjColon \/ ObjNext \/ ObjKey
    \/ EnsureEnd \/ UnexpectedCharacter

Spec == Init /\ [][Next]_vars

\* =================================================================== claims

Done == pc = "done"

Kind == result[1]

\* Reference definitions the claims are stated with: the length of the UTF-8
\* sequence a lead byte starts, the character at a byte offset, and the
\* 1-based line and column of a byte offset.
RefSeqLen(b) ==
    IF b < 128 THEN 1 ELSE IF b \in 192..223 THEN 2 ELSE IF b \in 224..239 THEN 3 ELSE 4

RefCharAt(src, off) == Utf8Decode(SubSeq(src, off + 1, off + RefSeqLen(src[off + 1])))

LineFeedsBefore(src, off) == {i \in 1..off : src[i] = 10}

RefLine(src, off) == 1 + Cardinality(LineFeedsBefore(src, off))

RefColumn(src, off) ==
    LET lfs   == LineFeedsBefore(src, off)
        start == IF lfs = {} THEN 0 ELSE CHOOSE i \in lfs : \A j \in lfs : j <= i
    IN  1 + CharCount(SubSeq(src, start + 1, off))

RECURSIVE DigitRun(_, _)
\* The position after the digits that start at position i of s.
DigitRun(s, i) == IF i <= Len(s) /\ IsDigit(s[i]) THEN DigitRun(s, i + 1) ELSE i

\* The number grammar: -? (0 | [1-9][0-9]*) (. [0-9]+)? ([eE] [+-]? [0-9]+)?
\* Each step gives the position after the part, 0 when the part is malformed.
IsJsonNumber(s) ==
    LET n  == Len(s)
        i0 == IF n >= 1 /\ s[1] = B("-") THEN 2 ELSE 1
        i1 == IF i0 <= n /\ s[i0] = B("0") THEN i0 + 1
              ELSE IF i0 <= n /\ s[i0] \in 49..57 THEN DigitRun(s, i0 + 1)
              ELSE 0
        i2 == IF i1 > 0 /\ i1 <= n /\ s[i1] = B(".")
              THEN (IF DigitRun(s, i1 + 1) > i1 + 1 THEN DigitRun(s, i1 + 1) ELSE 0)
              ELSE i1
        k  == IF i2 > 0 /\ i2 + 1 <= n /\ s[i2 + 1] \in {B("+"), B("-")}
              THEN i2 + 2 ELSE i2 + 1
        i3 == IF i2 > 0 /\ i2 <= n /\ s[i2] \in {B("e"), B("E")}
              THEN (IF DigitRun(s, k) > k THEN DigitRun(s, k) ELSE 0)
              ELSE i2
    IN  i3 = n + 1

\* C1: once parse has read one complete value, it succeeds if and only if
\* every remaining byte is whitespace; otherwise it fails with
\* UnexpectedCharacter naming the first byte after the value that is not
\* whitespace.
C1_TrailingBytes ==
    (Done /\ gh.valueEnd >= 0) =>
        LET bad == {i \in (gh.valueEnd + 1)..Len(source) : ~IsWhitespace(source[i])}
            first == CHOOSE i \in bad : \A j \in bad : i <= j
        IN  IF bad = {} THEN Kind = "Ok"
            ELSE Kind = "UnexpectedCharacter" /\ result[2] = RefCharAt(source, first - 1)

\* The program points where parse still requires a byte, and those where the
\* end of the input is accepted (a number may end there, or the document).
MustHaveByte ==
    {"value", "arr_first", "lit", "minus", "exp_sign", "exp_first",
     "str_fast", "str_cx", "str_esc", "hex", "hex_low", "sur_bs", "sur_u",
     "arr_next", "obj_first", "obj_colon", "obj_next", "obj_key"}
MayEnd == {"num_int", "big", "frac_dot", "frac_digits", "exp_mark", "exp_digits", "end"}

\* C2: parse returns UnexpectedEndOfJson exactly when the input runs out at
\* a point where a byte is still required (before any value, inside a
\* string or escape, inside a literal, after '-', after e/E or its sign,
\* inside an unclosed array or object); the end of the input is accepted only
\* where a number may continue and in ensure_end.
C2_EndOfInput ==
    /\ gh.eofAt \in MustHaveByte \cup MayEnd \cup {""}
    /\ (gh.eofAt \in MustHaveByte) <=> (Kind = "UnexpectedEndOfJson")
    /\ (gh.eofAt \in MustHaveByte) => Done

\* C2 witness: the input ended directly after a leading '-'.
C2_Witness == Done /\ gh.eofAt = "minus" /\ Kind = "UnexpectedEndOfJson"

\* C3: when the byte the grammar disallows starts a 2-, 3- or 4-byte UTF-8
\* sequence, parse returns UnexpectedCharacter whose ch is the character the
\* sequence encodes (no panic, no other error).
C3_DecodesCharacter ==
    (Done /\ gh.failAt >= 0 /\ source[gh.failAt + 1] >= 128) =>
        /\ Kind = "UnexpectedCharacter"
        /\ result[2] = RefCharAt(source, gh.failAt)

\* C4: the position of an UnexpectedCharacter error is 1-based: line is one
\* plus the line breaks before the failing byte, column is one plus the
\* characters between the last such line break (or the start of the input)
\* and the failing byte.
C4_Position ==
    (Done /\ Kind = "UnexpectedCharacter") =>
        /\ result[3] = RefLine(source, gh.failAt)
        /\ result[4] = RefColumn(source, gh.failAt)

C6_NumberGrammar ==
    (Done /\ Kind = "Ok" /\ gh.numTok # <<>>) => IsJsonNumber(gh.numTok)

\* The index of the last member of hist with key k.
LastOf(hist, k) == CHOOSE i \in DOMAIN hist : hist[i][1] = k /\ \A j \in DOMAIN hist : hist[j][1] = k => j <= i

\* C7: an object that parses maps exactly the keys of its members, each to
\* the value of its last occurrence in the input; a repeated key is no error.
C7_LastWriteWins ==
    /\ (gh.objects > 0) =>
          /\ DOMAIN gh.objMap = {gh.objHist[i][1] : i \in DOMAIN gh.objHist}
          /\ \A k \in DOMAIN gh.objMap : gh.objMap[k] = gh.objHist[LastOf(gh.objHist, k)][2]
    /\ (Done /\ source \in ObjDocs) =>
          /\ Kind = "Ok"
          /\ result[2] = <<"obj", gh.objMap>>

\* C7 witness: an object returned with a key that occurred twice, spelled
\* plainly and as an escape, with different values.
C7_Witness ==
    /\ Done /\ Kind = "Ok" /\ source \in ObjDocs
    /\ Len(gh.objHist) = 2 /\ Cardinality(DOMAIN gh.objMap) = 1
    /\ gh.objHist[1][2] # gh.objHist[2][2]
    /\ SubSeq(source, 2, 4) # SubSeq(source, 8, 10)

\* C8: no step of the u64 accumulation num = (num << 1) + (num << 3) + digit
\* overflows, however long the digit run: read_big_number takes over first.
C8_NoIntegerOverflow ==
    /\ ~gh.numWrapped
    /\ num.digits <= DigitCap
    /\ (pc = "big" \/ num.big # <<>>) => num.digits = DigitCap

\* C8 witness: a run of MaxDigits nines read to its end; the u64 holds the
\* first 19, 9999999999999999999 = 0x8AC7230489E7FFFF, the largest value the
\* accumulation can reach.
C8_Witness ==
    /\ pc = "num_done" /\ index = Len(source) /\ index = MaxDigits
    /\ Len(num.big) >= 1
    /\ num.mant = <<65535, 35303, 8964, 35527>>

\* C9: 0 <= index <= length in every state; the buffer is read only at an
\* index below length; the cursor moves backwards only by one position and
\* only directly after a byte was consumed.
C9_Cursor ==
    /\ [](index \in 0..Len(source) /\ gh.lastRead \in -1..(Len(source) - 1))
    /\ [][index' < index => (index' = index - 1 /\ gh.fresh)]_vars

\* C9 witness: a byte that is no part of the number was pushed back.
C9_Witness == pc = "num_done" /\ ~gh.fresh /\ gh.lastRead = -1 /\ gh.eofAt = "" /\ index < Len(source)

\* C10: the i32 accumulation e = (e << 1) + (e << 3) + digit of the exponent
\* never overflows, however many exponent digits the input has.
C10_NoExponentOverflow == ~gh.expWrapped

====
